---- MODULE Spec2Model ----
(***************************************************************************)
(* scripts/generate_svg.py: fetch the comments of one issue page by page,  *)
(* fold the usage records embedded in them into per-day totals, and draw   *)
(* the last 14 days as a stacked bar chart.                                *)
(*                                                                         *)
(* Spec      the whole run of the script (__main__)                        *)
(* FairSpec  the same run, which never pauses (single-threaded, blocking)  *)
(* SpecExtract  extract_and_aggregate_data applied to bounded comment lists*)
(* SpecChart    generate_chart applied to bounded aggregates               *)
(* SpecFmt      k_formatter applied to bounded tick values                 *)
(***************************************************************************)
EXTENDS Integers, Sequences, FiniteSets, TLC

VARIABLES
    GITHUB_TOKEN, REPO_NAME, ISSUE_NUMBER, \* the three settings read from the environment
    remote,          \* the pages the comment API serves, in link order
    pc,              \* where the script is
    url,             \* fetch_issue_comments: the next URL to request (NoUrl: none)
    comments,        \* the comment list (fetch's accumulator, extract's argument)
    requests,        \* the page requests issued so far, in order
    aggregated_data, \* date key -> counter kind -> total
    raised,          \* the exception that ended the run or the call ("none": none)
    exit_code,       \* the process exit code (Running: still running)
    stdout,          \* what was printed, in order
    svg_written,     \* OUTPUT_FILE has been written
    phases,          \* the components called so far, in order
    display_dates,   \* generate_chart: the date keys plotted
    dates_for_plot,  \* generate_chart: the same, parsed
    plot_data,       \* generate_chart: counter kind -> the values plotted
    x,               \* k_formatter: the tick value
    label            \* k_formatter: the label returned

vars == <<GITHUB_TOKEN, REPO_NAME, ISSUE_NUMBER, remote, pc, url, comments,
          requests, aggregated_data, raised, exit_code, stdout, svg_written,
          phases, display_dates, dates_for_plot, plot_data, x, label>>

(***************************************************************************)
(* Bounds of the model.                                                    *)
(***************************************************************************)
MaxPages == 3       \* pages in the served chain
MaxPageLen == 1     \* comments on one page
MaxComments == 2    \* comments in a list handed to extract_and_aggregate_data
MaxStats == 2       \* stat entries in one payload
MaxDates == 15      \* distinct dates an aggregate may hold
MaxUnit == 2600     \* tick values 0..MaxUnit, every integer
MaxKStep == 4100    \* tick values up to 250 * MaxKStep, every 250
MaxMStep == 140     \* tick values up to 25000 * MaxMStep, every 25000

(***************************************************************************)
(* Python values.                                                          *)
(***************************************************************************)
None == "None"          \* os.environ.get of an unset variable
NoUrl == 0              \* links.get('next', {}).get('url') when there is no next link
Running == 0 - 1        \* no exit code yet
EmptyDict == <<>>       \* {} : the function with the empty domain

Truthy(v) == v # None /\ v # ""

Get(d, k, default) == IF k \in DOMAIN d THEN d[k] ELSE default

\* Text is a sequence of code points; Python compares str values by them.
Hyphen == 45
Zero == 48

\* a < b for two str values: decided at the first position where they differ
RECURSIVE StrLessFrom(_, _, _)
StrLessFrom(a, b, i) ==
    IF i > Len(a) THEN i <= Len(b)
    ELSE IF i > Len(b) THEN FALSE
    ELSE IF a[i] # b[i] THEN a[i] < b[i]
    ELSE StrLessFrom(a, b, i + 1)

StrLess(a, b) == StrLessFrom(a, b, 1)

\* sorted(keys): the keys in ascending str order (the keys of a dict are
\* distinct, so the order is the only one there is).
RECURSIVE sorted(_)
sorted(S) ==
    IF S = {} THEN <<>>
    ELSE LET e == CHOOSE a \in S : TRUE
             rest == sorted(S \ {e})
             k == Cardinality({i \in DOMAIN rest : StrLess(rest[i], e)})
         IN SubSeq(rest, 1, k) \o <<e>> \o SubSeq(rest, k + 1, Len(rest))

(***************************************************************************)
(* Calendar dates <<year, month, day>> and their 'YYYY-MM-DD' keys.        *)
(***************************************************************************)
IsLeap(y) == ((y % 4) = 0 /\ (y % 100) # 0) \/ (y % 400) = 0

DaysIn(y, m) ==
    IF m = 2 THEN (IF IsLeap(y) THEN 29 ELSE 28)
    ELSE IF m \in {4, 6, 9, 11} THEN 30 ELSE 31

Digits2(n) == <<Zero + ((n \div 10) % 10), Zero + (n % 10)>>
Digits4(n) == Digits2(n \div 100) \o Digits2(n % 100)

\* date.strftime('%Y-%m-%d'): the key the producer of the comments writes.
DateStr(date) ==
    Digits4(date[1]) \o <<Hyphen>> \o Digits2(date[2]) \o <<Hyphen>> \o Digits2(date[3])

IsDigit(c) == c >= Zero /\ c <= Zero + 9
Num(s) == IF Len(s) = 4
          THEN (s[1] - Zero) * 1000 + (s[2] - Zero) * 100 + (s[3] - Zero) * 10 + (s[4] - Zero)
          ELSE (s[1] - Zero) * 10 + (s[2] - Zero)

\* datetime.strptime(d, '%Y-%m-%d').date() on a zero-padded key; anything else
\* is a ValueError.
strptime_ok(s) ==
    /\ Len(s) = 10
    /\ s[5] = Hyphen /\ s[8] = Hyphen
    /\ \A i \in {1, 2, 3, 4, 6, 7, 9, 10} : IsDigit(s[i])
    /\ LET y == Num(SubSeq(s, 1, 4))
           m == Num(SubSeq(s, 6, 7))
           d == Num(SubSeq(s, 9, 10))
       IN y >= 1 /\ m \in 1..12 /\ d >= 1 /\ d <= DaysIn(y, m)

strptime(s) == <<Num(SubSeq(s, 1, 4)), Num(SubSeq(s, 6, 7)), Num(SubSeq(s, 9, 10))>>

\* date < date
DateLess(a, b) ==
    \/ a[1] < b[1]
    \/ a[1] = b[1] /\ a[2] < b[2]
    \/ a[1] = b[1] /\ a[2] = b[2] /\ a[3] < b[3]

NextDay(date) ==
    IF date[3] < DaysIn(date[1], date[2]) THEN <<date[1], date[2], date[3] + 1>>
    ELSE IF date[2] < 12 THEN <<date[1], date[2] + 1, 1>>
    ELSE <<date[1] + 1, 1, 1>>

RECURSIVE AddDays(_, _)
AddDays(date, n) == IF n = 0 THEN date ELSE AddDays(NextDay(date), n - 1)

(***************************************************************************)
(* Comments and the records embedded in them.                              *)
(*                                                                         *)
(* A comment is [id, body].  A body is read only through the marker search *)
(* and json.loads, so it is kept as what those two see: whether it holds a *)
(* marker block, and the text inside the block, which is valid JSON (with  *)
(* the object it decodes to) or not.                                       *)
(***************************************************************************)
TokenKinds == {"Input", "Output", "Cache Read", "Cache Write"}

\* the payload field added into each counter kind
field(T) ==
    CASE T = "Input" -> "input"
      [] T = "Output" -> "output"
      [] T = "Cache Read" -> "cache_read"
      [] T = "Cache Write" -> "cache_write"

NoText == [valid |-> FALSE, data |-> EmptyDict]
PlainBody == [marker |-> FALSE, inner |-> NoText]
MalformedBody == [marker |-> TRUE, inner |-> NoText]
PayloadBody(data) == [marker |-> TRUE, inner |-> [valid |-> TRUE, data |-> data]]

\* A pattern that captures the text between the block's markers: what the
\* comment above the regex and the use of group(1) below it describe.
marker_regex == [pattern |-> "marker(.*?)marker", groups |-> 1]

\* regex = r"" : the empty pattern, which has no capture group.
regex == [pattern |-> "", groups |-> 0]

\* re.search(regex, comment['body'], re.DOTALL).  The empty pattern matches
\* the empty string at position 0 of every body.  groups: the captured texts.
re_search(re, body) ==
    IF re.pattern = "" THEN [found |-> TRUE, groups |-> <<>>]
    ELSE IF body.marker THEN [found |-> TRUE, groups |-> <<body.inner>>]
    ELSE [found |-> FALSE, groups |-> <<>>]

Printed(msg, arg) == [msg |-> msg, arg |-> arg]

\* aggregated_data[target_date][T] += model_stat.get(field, 0), for the four
\* kinds; aggregated_data is a defaultdict of defaultdict(int).
add_stat(agg, target_date, model_stat) ==
    LET old == IF target_date \in DOMAIN agg THEN agg[target_date] ELSE EmptyDict
        new == [T \in TokenKinds |-> Get(old, T, 0) + Get(model_stat, field(T), 0)]
    IN [d \in DOMAIN agg \cup {target_date} |-> IF d = target_date THEN new ELSE agg[d]]

\* for model_stat in stats: ...
RECURSIVE fold_stats(_, _, _)
fold_stats(agg, target_date, stats) ==
    IF stats = <<>> THEN agg
    ELSE fold_stats(add_stat(agg, target_date, Head(stats)), target_date, Tail(stats))

\* for comment in comments: ...   The result is what the call does: the
\* exception it raises ("none": it returns), the value returned, and what it
\* printed.
RECURSIVE scan(_, _, _, _)
scan(re, cs, agg, out) ==
    IF cs = <<>> THEN [raised |-> "none", value |-> agg, out |-> out]
    ELSE
      LET comment == Head(cs)
          match == re_search(re, comment.body)
      IN IF ~match.found THEN scan(re, Tail(cs), agg, out)
         ELSE IF Len(match.groups) < 1
           THEN [raised |-> "IndexError", value |-> EmptyDict, out |-> out]
         ELSE
           LET json_str == match.groups[1]
           IN IF ~json_str.valid
                THEN scan(re, Tail(cs), agg, Append(out, Printed("warning", comment.id)))
              ELSE
                LET data == json_str.data
                    has_date == "target_date" \in DOMAIN data /\ data["target_date"] # <<>>
                    stats == Get(data, "stats", <<>>)
                IN IF ~has_date \/ stats = <<>> THEN scan(re, Tail(cs), agg, out)
                   ELSE scan(re, Tail(cs), fold_stats(agg, data["target_date"], stats), out)

extract_with(re, cs) == scan(re, cs, EmptyDict, <<Printed("parsing", Len(cs))>>)

extract_and_aggregate_data(cs) == extract_with(regex, cs)

(***************************************************************************)
(* generate_chart.                                                         *)
(***************************************************************************)
\* the stacking order, Output on top
token_types == <<"Input", "Cache Write", "Cache Read", "Output">>

\* sorted_dates[:14]
first_14(sorted_dates) ==
    SubSeq(sorted_dates, 1, IF Len(sorted_dates) > 14 THEN 14 ELSE Len(sorted_dates))

\* sorted_dates[-14:]
last_14(sorted_dates) ==
    SubSeq(sorted_dates,
           IF Len(sorted_dates) > 14 THEN Len(sorted_dates) - 14 + 1 ELSE 1,
           Len(sorted_dates))

NoChart == [display_dates |-> <<>>, dates_for_plot |-> <<>>, plot_data |-> EmptyDict]

\* generate_chart past its guard: the series handed to ax.bar, and savefig.
draw_chart(agg) ==
    LET sorted_dates == sorted(DOMAIN agg)
        dd == last_14(sorted_dates)
    IN IF \E i \in 1..Len(dd) : ~strptime_ok(dd[i])
         THEN [raised |-> "ValueError", written |-> FALSE, out |-> <<>>, chart |-> NoChart]
       ELSE
         [raised |-> "none", written |-> TRUE,
          out |-> <<Printed("svg written", 0)>>,
          chart |->
            [display_dates |-> dd,
             dates_for_plot |-> [i \in 1..Len(dd) |-> strptime(dd[i])],
             plot_data |->
               [T \in {token_types[j] : j \in 1..Len(token_types)} |->
                  [i \in 1..Len(dd) |-> Get(agg[dd[i]], T, 0)]]]]

\* generate_chart without its guard
generate_chart_unguarded(agg) == draw_chart(agg)

\* What one call does: the exception raised ("none": it returns), whether
\* OUTPUT_FILE was written, what was printed, and the series plotted.
generate_chart(agg) ==
    IF DOMAIN agg = {}
      THEN [raised |-> "none", written |-> FALSE,
            out |-> <<Printed("no data", 0)>>, chart |-> NoChart]
    ELSE draw_chart(agg)

(***************************************************************************)
(* k_formatter, on integer tick values.                                    *)
(***************************************************************************)
DigitChar(d) ==
    CASE d = 0 -> "0" [] d = 1 -> "1" [] d = 2 -> "2" [] d = 3 -> "3" [] d = 4 -> "4"
      [] d = 5 -> "5" [] d = 6 -> "6" [] d = 7 -> "7" [] d = 8 -> "8" [] d = 9 -> "9"

\* the decimal digits of n >= 0
RECURSIVE IntStr(_)
IntStr(n) == IF n < 10 THEN DigitChar(n) ELSE IntStr(n \div 10) \o DigitChar(n % 10)

\* the fraction dropped instead of rounded
fmt_0f_floor(num, den) == num \div den

\* f'{v:.0f}' for v = num/den: the nearest integer, an exact half to the even
\* one.  x*1e-3 is the double nearest x/1000 for these x, and an exact half
\* (x = 1000q + 500) is a double.
fmt_0f(num, den) ==
    LET q == num \div den
        r == num % den
    IN IF 2 * r > den \/ (2 * r = den /\ (q % 2) = 1) THEN q + 1 ELSE q

\* f'{v:.1f}' for v = x*1e-6, in tenths.  A decimal half (x = 100000t + 50000)
\* is not a double: the product lies just above or just below it, and the
\* label goes the way the double does (up: it lies above).
fmt_1f(v, up) ==
    LET t == v \div 100000
        r == v % 100000
    IN IF r > 50000 \/ (r = 50000 /\ up) THEN t + 1 ELSE t

\* k_formatter(x, pos) for an integer tick x = v; pos is not read.  up: the
\* side of a decimal half on which the double x*1e-6 lies.
k_formatter(v, up) ==
    IF v >= 1000000
      THEN LET t == fmt_1f(v, up)
           IN IntStr(t \div 10) \o "." \o IntStr(t % 10) \o "M"
    ELSE IF v >= 1000 THEN IntStr(fmt_0f(v, 1000)) \o "K"
    ELSE IntStr(fmt_0f(v, 1))

(***************************************************************************)
(* The run of the script.                                                  *)
(***************************************************************************)
\* any() where the script has all()
config_any == Truthy(GITHUB_TOKEN) \/ Truthy(REPO_NAME) \/ Truthy(ISSUE_NUMBER)

\* all([GITHUB_TOKEN, REPO_NAME, ISSUE_NUMBER])
config_ok == Truthy(GITHUB_TOKEN) /\ Truthy(REPO_NAME) /\ Truthy(ISSUE_NUMBER)

\* only a server error raises
raise_for_5xx(status) == status >= 500 /\ status < 600

\* response.raise_for_status(): HTTPError for a 4xx or 5xx status
raise_for_status(status) == status >= 400 /\ status < 600

\* response.links.get('next', {}).get('url')
next_url(response) == response.next

\* the new page goes in front
extend_front(list, data) == data \o list

\* comments.extend(data)
extend(list, data) == list \o data

StatusCodes == {200, 404, 500}

\* The comments served carry every kind of body in turn.
ServedComment(k) ==
    [id |-> k,
     body |-> CASE (k % 3) = 1 -> PlainBody
                [] (k % 3) = 2 ->
                     PayloadBody([target_date |-> DateStr(<<2024, 1, 1>>),
                                  stats |-> <<[input |-> 100, output |-> 50]>>])
                [] OTHER -> MalformedBody]

RECURSIVE Offset(_, _)
Offset(shapes, i) == IF i = 1 THEN 0 ELSE Offset(shapes, i - 1) + shapes[i - 1].size

\* A finite chain of pages: page i links to page i + 1, the last page has no
\* next link, and no comment is served twice.
Chain(shapes) ==
    [i \in 1..Len(shapes) |->
        [status |-> shapes[i].status,
         data |-> [j \in 1..shapes[i].size |-> ServedComment(Offset(shapes, i) + j)],
         next |-> IF i < Len(shapes) THEN i + 1 ELSE NoUrl]]

Chains ==
    {Chain(shapes) : shapes \in
        UNION {[1..n -> [status : StatusCodes, size : 0..MaxPageLen]] : n \in 1..MaxPages}}

EnvValues(v) == {None, "", v}

Idle ==
    /\ url = NoUrl
    /\ requests = <<>>
    /\ raised = "none"
    /\ exit_code = Running
    /\ stdout = <<>>
    /\ svg_written = FALSE
    /\ phases = <<>>
    /\ display_dates = <<>>
    /\ dates_for_plot = <<>>
    /\ plot_data = EmptyDict
    /\ label = ""

Init ==
    /\ GITHUB_TOKEN \in EnvValues("token")
    /\ REPO_NAME \in EnvValues("owner/name")
    /\ ISSUE_NUMBER \in EnvValues("1")
    /\ remote \in Chains
    /\ pc = "main"
    /\ comments = <<>>
    /\ aggregated_data = EmptyDict
    /\ x = 0
    /\ Idle

\* if not all([...]): print(...); exit(1)   -- else fetch_issue_comments() begins
Main ==
    /\ pc = "main"
    /\ IF ~config_ok
         THEN /\ stdout' = Append(stdout, Printed("missing environment", 0))
              /\ exit_code' = 1
              /\ pc' = "exit"
              /\ UNCHANGED <<url, phases>>
         ELSE /\ pc' = "fetch"
              /\ url' = 1
              /\ phases' = Append(phases, "fetch")
              /\ UNCHANGED <<stdout, exit_code>>
    /\ UNCHANGED <<GITHUB_TOKEN, REPO_NAME, ISSUE_NUMBER, remote, comments, requests,
                   aggregated_data, raised, svg_written, display_dates,
                   dates_for_plot, plot_data, x, label>>

\* one turn of `while url:`
FetchPage ==
    /\ pc = "fetch"
    /\ url # NoUrl
    /\ LET response == remote[url]
       IN /\ requests' = Append(requests, url)
          /\ IF raise_for_status(response.status)
               THEN /\ raised' = "HTTPError"
                    /\ exit_code' = 1
                    /\ pc' = "exit"
                    /\ UNCHANGED <<comments, url>>
               ELSE /\ comments' = extend(comments, response.data)
                    /\ url' = next_url(response)
                    /\ UNCHANGED <<raised, exit_code, pc>>
    /\ UNCHANGED <<GITHUB_TOKEN, REPO_NAME, ISSUE_NUMBER, remote, aggregated_data,
                   stdout, svg_written, phases, display_dates, dates_for_plot,
                   plot_data, x, label>>

\* the loop ends; return comments
FetchReturn ==
    /\ pc = "fetch"
    /\ url = NoUrl
    /\ pc' = "aggregate"
    /\ UNCHANGED <<GITHUB_TOKEN, REPO_NAME, ISSUE_NUMBER, remote, url, comments,
                   requests, aggregated_data, raised, exit_code, stdout, svg_written,
                   phases, display_dates, dates_for_plot, plot_data, x, label>>

\* aggregated_data = extract_and_aggregate_data(comments)
Aggregate ==
    /\ pc = "aggregate"
    /\ phases' = Append(phases, "aggregate")
    /\ \E r \in {extract_and_aggregate_data(comments)} :
          /\ stdout' = stdout \o r.out
          /\ raised' = r.raised
          /\ IF r.raised # "none"
               THEN exit_code' = 1 /\ pc' = "exit" /\ UNCHANGED aggregated_data
               ELSE aggregated_data' = r.value /\ pc' = "render" /\ UNCHANGED exit_code
    /\ UNCHANGED <<GITHUB_TOKEN, REPO_NAME, ISSUE_NUMBER, remote, url, comments,
                   requests, svg_written, display_dates, dates_for_plot, plot_data,
                   x, label>>

\* generate_chart(aggregated_data), and the script ends
Render ==
    /\ pc = "render"
    /\ phases' = Append(phases, "render")
    /\ \E g \in {generate_chart(aggregated_data)} :
          /\ stdout' = stdout \o g.out
          /\ raised' = g.raised
          /\ svg_written' = g.written
          /\ display_dates' = g.chart.display_dates
          /\ dates_for_plot' = g.chart.dates_for_plot
          /\ plot_data' = g.chart.plot_data
          /\ exit_code' = IF g.raised # "none" THEN 1 ELSE 0
    /\ pc' = "exit"
    /\ UNCHANGED <<GITHUB_TOKEN, REPO_NAME, ISSUE_NUMBER, remote, url, comments,
                   requests, aggregated_data, x, label>>

Next == Main \/ FetchPage \/ FetchReturn \/ Aggregate \/ Render

Spec == Init /\ [][Next]_vars

\* The script is one blocking thread: it takes its next step whenever it has one.
FairSpec == Spec /\ WF_vars(Next)

(***************************************************************************)
(* Properties of the run.                                                  *)
(***************************************************************************)
Range(s) == {s[i] : i \in DOMAIN s}

RECURSIVE AllServed(_, _)
AllServed(chain, n) == IF n = 0 THEN <<>> ELSE AllServed(chain, n - 1) \o chain[n].data

Success(status) == status >= 200 /\ status < 300

AllPagesSucceed == \A i \in DOMAIN remote : Success(remote[i].status)

\* C6: the requests issued are pages 1, 2, 3, ... in link order, one each; when
\* fetch_issue_comments returns, every page of the chain has been requested
\* and the list returned is the pages' comments concatenated in page order
\* (none lost, duplicated or reordered); and on a chain whose pages all
\* succeed the loop ends and the function returns.
C6_FetchFollowsLinks ==
    /\ [](/\ \A i \in DOMAIN requests : requests[i] = i
          /\ pc = "aggregate" =>
                /\ Len(requests) = Len(remote)
                /\ comments = AllServed(remote, Len(remote)))
    /\ (pc = "fetch" /\ AllPagesSucceed) ~> (pc = "aggregate")

C6_Witness ==
    /\ pc = "aggregate"
    /\ Len(requests) >= 3
    /\ Len(comments) >= 2
    /\ \E i \in DOMAIN remote : Len(remote[i].data) = 0

\* C7: once a page request has been answered with a non-success status, it is
\* the last request (no further page, no retry), the run has ended with that
\* HTTP error and exit code 1, fetch_issue_comments has returned nothing, the
\* aggregator and the renderer have not been called and no chart is written.
C7_HttpErrorAborts ==
    \A i \in DOMAIN requests :
        ~Success(remote[requests[i]].status) =>
            /\ i = Len(requests)
            /\ pc = "exit"
            /\ raised = "HTTPError"
            /\ exit_code = 1
            /\ phases = <<"fetch">>
            /\ aggregated_data = EmptyDict
            /\ ~svg_written

C7_Witness ==
    /\ Len(requests) >= 2
    /\ ~Success(remote[requests[Len(requests)]].status)
    /\ Len(comments) >= 1
    /\ pc = "exit"

AnySettingAbsent == GITHUB_TOKEN = None \/ REPO_NAME = None \/ ISSUE_NUMBER = None

ConfigDiagnostic == Printed("missing environment", 0)

\* C8: with a setting absent, the run does nothing but print the diagnostic and
\* exit with code 1: no request is issued and no component is called.  The
\* components are only ever called in the order fetch, aggregate, render, and a
\* run that ends without a fatal error (no configuration diagnostic, no
\* exception) has called all three and exits with code 0.
C8_ConfigGate ==
    /\ AnySettingAbsent =>
          /\ requests = <<>>
          /\ phases = <<>>
          /\ \/ pc = "main" /\ exit_code = Running /\ stdout = <<>>
             \/ pc = "exit" /\ exit_code = 1 /\ stdout = <<ConfigDiagnostic>>
    /\ phases = SubSeq(<<"fetch", "aggregate", "render">>, 1, Len(phases))
    /\ (pc = "exit" /\ raised = "none" /\ ConfigDiagnostic \notin Range(stdout)) =>
          /\ phases = <<"fetch", "aggregate", "render">>
          /\ exit_code = 0

C8_Witness ==
    /\ AnySettingAbsent
    /\ Truthy(GITHUB_TOKEN)
    /\ pc = "exit"
    /\ exit_code = 1

\* a run with every setting present that ends without a fatal error
C8_FullRun ==
    /\ ~AnySettingAbsent
    /\ pc = "exit"
    /\ exit_code = 0
    /\ Len(requests) >= 2

(***************************************************************************)
(* extract_and_aggregate_data on bounded comment lists: the script from    *)
(* the call on, with the list drawn from every shape of body.              *)
(***************************************************************************)
Dict(keys, full) == [k \in keys |-> full[k]]

StatEntries ==
    {Dict({"input", "output"}, [input |-> 100, output |-> 50]),
     Dict({"input", "cache_read"}, [input |-> 200, cache_read |-> 10]),
     Dict({"cache_write"}, [cache_write |-> 7]),
     Dict({}, [input |-> 0])}

StatLists == UNION {[1..n -> StatEntries] : n \in 0..MaxStats}

ExtractDates == {DateStr(<<2024, 1, 1>>), DateStr(<<2024, 1, 2>>)}

\* every payload object: target_date present or not, stats present or not
Payloads ==
    {Dict(keys, [target_date |-> d, stats |-> st]) :
        keys \in SUBSET {"target_date", "stats"}, d \in ExtractDates, st \in StatLists}

Bodies == {PlainBody, MalformedBody} \cup {PayloadBody(data) : data \in Payloads}

CommentLists ==
    UNION {{[i \in 1..n |-> [id |-> i, body |-> b[i]]] : b \in [1..n -> Bodies]} :
              n \in 0..MaxComments}

InitExtract ==
    /\ GITHUB_TOKEN = "token"
    /\ REPO_NAME = "owner/name"
    /\ ISSUE_NUMBER = "1"
    /\ remote = <<>>
    /\ pc = "aggregate"
    /\ comments \in CommentLists
    /\ aggregated_data = EmptyDict
    /\ x = 0
    /\ Idle

SpecExtract == InitExtract /\ [][Aggregate]_vars

\* the call is over: it returned (pc = "render") or raised (pc = "exit")
ExtractDone == pc \in {"render", "exit"}

Without(cs, drop) ==
    LET F[i \in 0..Len(cs)] ==
          IF i = 0 THEN <<>>
          ELSE IF i \in drop THEN F[i - 1] ELSE Append(F[i - 1], cs[i])
    IN F[Len(cs)]

Warnings == {i \in DOMAIN stdout : stdout[i].msg = "warning"}

\* C1: a comment without the marker block contributes nothing and raises
\* nothing: the call ends as it would without that comment, and a list of
\* such comments alone returns the empty aggregate.
C1_NoMarkerSkipped ==
    ExtractDone =>
        /\ \A i \in DOMAIN comments :
              ~comments[i].body.marker =>
                  LET rest == extract_and_aggregate_data(Without(comments, {i}))
                  IN raised = rest.raised /\ (raised = "none" => aggregated_data = rest.value)
        /\ (\A i \in DOMAIN comments : ~comments[i].body.marker) =>
              raised = "none" /\ aggregated_data = EmptyDict

Malformed(cs) == {i \in DOMAIN cs : cs[i].body.marker /\ ~cs[i].body.inner.valid}

\* C2: with malformed marker blocks in the list, the call still returns, it
\* has warned once for each such comment, by id, and the aggregate is the one
\* of the list without them.
C2_MalformedSkipped ==
    (ExtractDone /\ Malformed(comments) # {}) =>
        /\ raised = "none"
        /\ {stdout[i].arg : i \in Warnings} = {comments[i].id : i \in Malformed(comments)}
        /\ Cardinality(Warnings) = Cardinality(Malformed(comments))
        /\ aggregated_data =
              extract_and_aggregate_data(Without(comments, Malformed(comments))).value

AllPayloads(cs) == \A i \in DOMAIN cs : cs[i].body.marker /\ cs[i].body.inner.valid

payload(c) == c.body.inner.data

\* the payloads that count: a target_date and a non-empty stats list
Counts(c) ==
    /\ {"target_date", "stats"} \subseteq DOMAIN payload(c)
    /\ payload(c)["stats"] # <<>>

RECURSIVE SumOver(_, _, _, _)
SumOver(cs, pairs, d, T) ==
    IF pairs = {} THEN 0
    ELSE LET ij == CHOOSE q \in pairs : TRUE
             entry == payload(cs[ij[1]])["stats"][ij[2]]
         IN (IF field(T) \in DOMAIN entry THEN entry[field(T)] ELSE 0)
              + SumOver(cs, pairs \ {ij}, d, T)

\* the stat entries of the payloads for date d
EntriesFor(cs, d) ==
    {<<i, j>> \in (DOMAIN cs) \X (1..MaxStats + 1) :
        /\ Counts(cs[i])
        /\ payload(cs[i])["target_date"] = d
        /\ j <= Len(payload(cs[i])["stats"])}

ExamplePayloads ==
    <<[id |-> 1,
       body |-> PayloadBody([target_date |-> DateStr(<<2024, 1, 1>>),
                             stats |-> <<Dict({"input", "output"},
                                              [input |-> 100, output |-> 50])>>])],
      [id |-> 2,
       body |-> PayloadBody([target_date |-> DateStr(<<2024, 1, 1>>),
                             stats |-> <<Dict({"input", "cache_read"},
                                              [input |-> 200, cache_read |-> 10])>>])]>>

\* C3: for a list of parseable payloads the call returns; the dates of the
\* aggregate are the target dates of the payloads that have one and a
\* non-empty stats list; each total is the sum of that field over the stat
\* entries for the date, a missing field counting 0; and the two example
\* payloads give Input 300, Output 50, Cache Read 10, Cache Write 0.
C3_TotalsAreSums ==
    (ExtractDone /\ AllPayloads(comments)) =>
        /\ raised = "none"
        /\ DOMAIN aggregated_data =
              {payload(comments[i])["target_date"] :
                  i \in {k \in DOMAIN comments : Counts(comments[k])}}
        /\ \A d \in DOMAIN aggregated_data : \A T \in TokenKinds :
              aggregated_data[d][T] = SumOver(comments, EntriesFor(comments, d), d, T)
        /\ comments = ExamplePayloads =>
              aggregated_data[DateStr(<<2024, 1, 1>>)] =
                  [T \in TokenKinds |->
                      CASE T = "Input" -> 300 [] T = "Output" -> 50
                        [] T = "Cache Read" -> 10 [] T = "Cache Write" -> 0]

RECURSIVE Product(_)
Product(sets) ==
    IF sets = <<>> THEN {<<>>}
    ELSE {<<h>> \o t : h \in Head(sets), t \in Product(Tail(sets))}

\* the comment with its stat entries in another order
StatOrders(c) ==
    IF "stats" \notin DOMAIN payload(c) THEN {c}
    ELSE LET st == payload(c)["stats"]
         IN {[id |-> c.id,
              body |-> PayloadBody([k \in DOMAIN payload(c) |->
                          IF k = "stats" THEN [j \in DOMAIN st |-> st[q[j]]]
                          ELSE payload(c)[k]])] :
                q \in Permutations(DOMAIN st)}

\* the list with its comments in any order, each with its entries in any order
Rearrangements(cs) ==
    UNION {Product([i \in DOMAIN cs |-> StatOrders(cs[p[i]])]) :
              p \in Permutations(DOMAIN cs)}

\* C4: for a list of valid payloads that can be put in another order, the call
\* returns, and it returns the same totals for the list in every order of its
\* comments and of the stat entries inside each.
C4_OrderIrrelevant ==
    (ExtractDone /\ AllPayloads(comments) /\ Rearrangements(comments) # {comments}) =>
        /\ raised = "none"
        /\ \A other \in Rearrangements(comments) :
              LET r == extract_and_aggregate_data(other)
              IN r.raised = "none" /\ r.value = aggregated_data

(***************************************************************************)
(* generate_chart on bounded aggregates: the script from the call on.      *)
(***************************************************************************)
PoolDates == {AddDays(<<2023, 11, 30>>, 11 * (i - 1)) : i \in 1..MaxDates}

PoolKey == [d \in PoolDates |-> DateStr(d)]

DateOf(key) == CHOOSE d \in PoolDates : PoolKey[d] = key

Counters(profile, d) ==
    [T \in TokenKinds |->
        IF profile = "zero" THEN 0
        ELSE CASE T = "Input" -> 100 * d[3] [] T = "Output" -> 50 * d[2]
               [] T = "Cache Read" -> 10 [] T = "Cache Write" -> 0]

AggregateOf(S, profile) ==
    [key \in {PoolKey[d] : d \in S} |-> Counters(profile, DateOf(key))]

\* every set of dates with counters in use, and the small ones with none
Aggregates ==
    {AggregateOf(S, "usage") : S \in SUBSET PoolDates}
      \cup {AggregateOf({d, e}, "zero") : d, e \in PoolDates}

InitChart ==
    /\ GITHUB_TOKEN = "token"
    /\ REPO_NAME = "owner/name"
    /\ ISSUE_NUMBER = "1"
    /\ remote = <<>>
    /\ pc = "render"
    /\ comments = <<>>
    /\ aggregated_data \in Aggregates
    /\ x = 0
    /\ Idle

SpecChart == InitChart /\ [][Render]_vars

Min(a, b) == IF a < b THEN a ELSE b

\* C5: the window plotted holds min(14, n) of the n dates of the aggregate, in
\* strictly ascending calendar order (so none twice), each parsed to the date
\* its key names, and every date left out is earlier than every date plotted.
C5_LatestFourteen ==
    (pc = "exit" /\ DOMAIN aggregated_data # {}) =>
        /\ Len(display_dates) = Min(14, Cardinality(DOMAIN aggregated_data))
        /\ Len(dates_for_plot) = Len(display_dates)
        /\ Range(display_dates) \subseteq DOMAIN aggregated_data
        /\ \A i \in DOMAIN display_dates : dates_for_plot[i] = DateOf(display_dates[i])
        /\ \A i, j \in DOMAIN dates_for_plot :
              i < j => DateLess(dates_for_plot[i], dates_for_plot[j])
        /\ \A key \in DOMAIN aggregated_data \ Range(display_dates) :
              \A i \in DOMAIN dates_for_plot : DateLess(DateOf(key), dates_for_plot[i])

C5_Witness ==
    /\ pc = "exit"
    /\ Cardinality(DOMAIN aggregated_data) > 14
    /\ Len(display_dates) = 14
    /\ dates_for_plot[1][1] < dates_for_plot[14][1]

AllZero(agg) == \A d \in DOMAIN agg : \A T \in TokenKinds : agg[d][T] = 0

\* C9: the chart file is written exactly when the aggregate holds a date.  On
\* an empty aggregate the call prints its message, writes nothing and returns,
\* and the script exits 0; on a single date with four zero counters it plots
\* four zero-height bars, writes the file and raises nothing.
C9_WrittenIffData ==
    pc = "exit" =>
        /\ svg_written <=> DOMAIN aggregated_data # {}
        /\ raised = "none"
        /\ exit_code = 0
        /\ DOMAIN aggregated_data = {} =>
              stdout = <<Printed("no data", 0)>> /\ plot_data = EmptyDict
        /\ (Cardinality(DOMAIN aggregated_data) = 1 /\ AllZero(aggregated_data)) =>
              /\ svg_written
              /\ \A T \in TokenKinds : plot_data[T] = <<0>>

C9_Witness ==
    /\ pc = "exit"
    /\ Cardinality(DOMAIN aggregated_data) = 1
    /\ AllZero(aggregated_data)
    /\ svg_written

\* the empty aggregate, skipped
C9_Skipped == pc = "exit" /\ DOMAIN aggregated_data = {} /\ ~svg_written

(***************************************************************************)
(* k_formatter on bounded tick values.                                     *)
(***************************************************************************)
InitFmt ==
    /\ GITHUB_TOKEN = "token"
    /\ REPO_NAME = "owner/name"
    /\ ISSUE_NUMBER = "1"
    /\ remote = <<>>
    /\ pc = "format"
    /\ comments = <<>>
    /\ aggregated_data = EmptyDict
    /\ \/ x \in 0..MaxUnit
       \/ \E k \in 0..MaxKStep : x = 250 * k
       \/ \E k \in 0..MaxMStep : x = 25000 * k
       \/ x \in {999499, 999501, 999999, 1000001}
    /\ Idle

\* label = k_formatter(x, pos)
Format ==
    /\ pc = "format"
    /\ \E up \in BOOLEAN : label' = k_formatter(x, up)
    /\ pc' = "formatted"
    /\ UNCHANGED <<GITHUB_TOKEN, REPO_NAME, ISSUE_NUMBER, remote, url, comments,
                   requests, aggregated_data, raised, exit_code, stdout, svg_written,
                   phases, display_dates, dates_for_plot, plot_data, x>>

SpecFmt == InitFmt /\ [][Format]_vars

Dist(a, b) == IF a < b THEN b - a ELSE a - b

\* C10: a tick of a million or more is labelled with x/1,000,000 to one
\* decimal (a nearest tenth) and 'M'; a tick from 1,000 up, with x/1,000 to
\* the nearest integer and 'K'; a smaller tick, with the integer itself; and
\* 999 is "999", 1500 is "2K", 2,500,000 is "2.5M".
C10_TickLabels ==
    pc = "formatted" =>
        /\ x >= 1000000 =>
              \E t \in {x \div 100000, x \div 100000 + 1} :
                  /\ Dist(100000 * t, x) <= 50000
                  /\ label = IntStr(t \div 10) \o "." \o IntStr(t % 10) \o "M"
        /\ (x >= 1000 /\ x < 1000000) =>
              \E n \in {x \div 1000, x \div 1000 + 1} :
                  /\ 2 * Dist(1000 * n, x) <= 1000
                  /\ label = IntStr(n) \o "K"
        /\ x < 1000 => label = IntStr(x)
        /\ x = 999 => label = "999"
        /\ x = 1500 => label = "2K"
        /\ x = 2500000 => label = "2.5M"

C10_Witness == pc = "formatted" /\ x = 1500 /\ label = "2K"

====
